---- MODULE Spec2Model ----
(***************************************************************************)
(* A model of prepare.py: the mini-dataset pipeline of DocTransfer.         *)
(*                                                                         *)
(* main() parses --nozip/--only, checks the input JSON, loads it, calls    *)
(* create_mini_dataset (seeded per-category sampling, JSON write, optional *)
(* image copy), then optionally zips and cleans up.  The model follows the *)
(* program position (pc) through these steps; the filesystem objects the   *)
(* program touches are variables.  The filesystem is taken to be reliable: *)
(* an operation the code attempts on an existing object of the right kind  *)
(* succeeds.                                                               *)
(***************************************************************************)
EXTENDS Integers, Sequences, FiniteSets, TLC

VARIABLES
    dataset,        \* the records stored in OCRBench.json
    inputExists,    \* OCRBench.json is a file
    cat_num,        \* the quota table: a sequence of [cat, count], keys distinct
    df,             \* the loaded frame: [columns, rows]
    srcDir,         \* OCRBench_Images: [exists, files]
    miniDir,        \* OCRBench_Images_mini: [kind, files, dirs]
    miniJson,       \* OCRBench_mini.json: [exists, rows]
    zipFile,        \* output.zip: [exists, names]
    args,           \* [zip, only] of the current run
    pc,             \* position of the current run
    qi,             \* index of the quota entry the sampling loop is at
    mini_df_list,   \* the per-category samples collected so far
    mini_df,        \* the concatenated sample
    sampled,        \* mini_df has been built in the current run
    ri,             \* index of the row the copy loop is at
    copied_count,
    missing_count,
    srcRead,        \* the current run has looked at OCRBench_Images
    disk0,          \* the output objects as they were when the run started
    prev_df         \* [has, rows, other]: the sample of the latest earlier run that
                    \* sampled, and whether the current run was started with other
                    \* flags and on another disk than the run before it

vars == <<dataset, inputExists, cat_num, df, srcDir, miniDir, miniJson, zipFile, args,
          pc, qi, mini_df_list, mini_df, sampled, ri, copied_count, missing_count,
          srcRead, disk0, prev_df>>

runVars == <<qi, mini_df_list, mini_df, sampled, ri, copied_count, missing_count>>
inputVars == <<dataset, inputExists, cat_num, srcDir>>
\* (the loaded frame changes only when a run starts)

----------------------------------------------------------------------------
(* Bounds of the model. *)

\* longest dataset and largest quota of the pipeline specification
MaxRecords == 2
MaxQuota == 1
\* longest dataset and largest quota of the sampler specification
SamplerMaxRecords == 3
SamplerMaxQuota == 2

----------------------------------------------------------------------------
(* Names and small universes. *)

IMAGE_SOURCE_DIR == "OCRBench_Images"
MINI_IMAGE_DIR == "OCRBench_Images_mini"
MINI_JSON_FILE == "OCRBench_mini.json"
OUTPUT_ZIP_BASE == "output"

\* categories that occur in data, and categories a quota table may name
DataCats == {"A", "B"}
QuotaCats == {"A", "B", "C"}

\* relative image paths, as sequences of path segments
ImagePaths == {<<"a.png">>, <<"d", "b.png">>}
StalePath == <<"old.png">>

Records == [type : DataCats, image_path : ImagePaths]
StaleRecord == [type |-> "stale", image_path |-> StalePath]

Min(a, b) == IF a < b THEN a ELSE b

Datasets(n) == UNION {[1..k -> Records] : k \in 0..n}

\* pd.json_normalize(data): the empty list gives a frame without columns
JsonNormalize(data) == [columns |-> data # <<>>, rows |-> data]
NoFrame == [columns |-> FALSE, rows |-> <<>>]

\* the dict literals over the categories cats: keys are distinct, iteration
\* follows insertion order
QuotaTables(cats, maxCount) ==
    UNION {{q \in [1..k -> [cat : cats, count : 0..maxCount]] :
                \A i, j \in 1..k : q[i].cat = q[j].cat => i = j} :
           k \in 0..Cardinality(cats)}

----------------------------------------------------------------------------
(* cat_df.sample(n=n_samples, random_state=42): RandomState(42).choice     *)
(* without replacement is permutation(len)[:n]; permutation is a           *)
(* Fisher-Yates shuffle from the top index down, each index drawn by       *)
(* masked rejection from the 32-bit outputs of MT19937 seeded with 42.     *)
(* Permutation(2) = <<1, 0>>, Permutation(3) = <<0, 1, 2>>,                *)
(* Permutation(4) = <<1, 3, 0, 2>>, Permutation(5) = <<1, 4, 2, 0, 3>>.    *)

\* the first outputs of MT19937 after init_genrand(42), each reduced modulo
\* 2^16 (1608637542, 3421126067, 4083286876, 787846414, 3143890026, 3348747335,
\* 2571218620, 2563451924, 670094950, 1914837113, 669991378, 429389014): a
\* frame of fewer than 2^16 rows is sampled with masks below 2^16
MT42 == <<56422, 15795, 860, 38158, 62570, 54343, 44732, 11284, 54886, 6265,
          16850, 62678>>

RECURSIVE MaskFrom(_, _)
MaskFrom(m, max) == IF m >= max THEN m ELSE MaskFrom(2 * m + 1, max)

\* draw a value in 0..max starting at output number pos: [value, pos]
RECURSIVE RkInterval(_, _)
RkInterval(max, pos) ==
    LET value == MT42[pos] % (MaskFrom(1, max) + 1)
    IN IF value > max THEN RkInterval(max, pos + 1)
       ELSE [value |-> value, pos |-> pos + 1]

Swap(arr, a, b) == [arr EXCEPT ![a] = arr[b], ![b] = arr[a]]

\* arr holds 0-based row numbers at 1-based positions
RECURSIVE ShuffleFrom(_, _, _)
ShuffleFrom(arr, i, pos) ==
    IF i < 1 THEN arr
    ELSE LET d == RkInterval(i, pos)
         IN ShuffleFrom(Swap(arr, i + 1, d.value + 1), i - 1, d.pos)

Permutation(n) == ShuffleFrom([k \in 1..n |-> k - 1], n - 1, 1)

Sample(frame, n) == [k \in 1..n |-> frame[Permutation(Len(frame))[k] + 1]]

----------------------------------------------------------------------------
(* The sampling loop of create_mini_dataset. *)

\* df[df["type"] == cat]: the matching rows, in input order
RECURSIVE CatDf(_, _)
CatDf(rows, cat) ==
    IF rows = <<>> THEN <<>>
    ELSE IF rows[1].type = cat THEN <<rows[1]>> \o CatDf(Tail(rows), cat)
         ELSE CatDf(Tail(rows), cat)

\* (a variant that forgets the clamp to the rows available)
NSamplesUnclamped(count, available) == count

NSamples(count, available) == Min(count, available)

\* the entry asks sample for more rows than its frame has
SampleRaises(rows, entry) ==
    LET cat_df == CatDf(rows, entry.cat)
    IN cat_df # <<>> /\ NSamples(entry.count, Len(cat_df)) > Len(cat_df)

\* one iteration: the frames list after the entry [cat, count]
SampleEntry(frames, rows, entry) ==
    LET cat_df == CatDf(rows, entry.cat)
        n_samples == NSamples(entry.count, Len(cat_df))
    IN IF cat_df # <<>> /\ n_samples > 0
       THEN Append(frames, Sample(cat_df, n_samples))
       ELSE frames

\* (a variant that puts each later sample in front)
RECURSIVE ConcatReversed(_)
ConcatReversed(frames) ==
    IF frames = <<>> THEN <<>> ELSE ConcatReversed(Tail(frames)) \o frames[1]

\* pd.concat(mini_df_list).reset_index(drop=True), or the empty frame
RECURSIVE Concat(_)
Concat(frames) ==
    IF frames = <<>> THEN <<>> ELSE frames[1] \o Concat(Tail(frames))

----------------------------------------------------------------------------
(* Filesystem objects. *)

AbsentDir == [kind |-> "absent", files |-> {}, dirs |-> {}]
EmptyDir == [kind |-> "dir", files |-> {}, dirs |-> {}]
StaleDir == [kind |-> "dir", files |-> ImagePaths \cup {StalePath}, dirs |-> {<<"d">>}]
BlockingFile == [kind |-> "file", files |-> {}, dirs |-> {}]
AbsentJson == [exists |-> FALSE, rows |-> <<>>]
StaleJson == [exists |-> TRUE, rows |-> <<StaleRecord>>]
AbsentZip == [exists |-> FALSE, names |-> {}]
StaleZip == [exists |-> TRUE, names |-> {<<"old.bin">>}]

\* what may lie at the output paths before the first run
InitialDisks ==
    {[dir |-> AbsentDir, json |-> AbsentJson, zip |-> AbsentZip],
     [dir |-> StaleDir, json |-> StaleJson, zip |-> StaleZip],
     [dir |-> BlockingFile, json |-> StaleJson, zip |-> AbsentZip]}

SourceDirs ==
    {[exists |-> FALSE, files |-> {}]} \cup [exists : {TRUE}, files : SUBSET ImagePaths]

Disk == [dir |-> miniDir, json |-> miniJson, zip |-> zipFile]

\* the directories dst.parent.mkdir(parents=True) makes below the image directory
ParentDirs(path) == {SubSeq(path, 1, k) : k \in 1..(Len(path) - 1)}

----------------------------------------------------------------------------
(* zip_directory_and_file: the archive written for a directory and a file. *)

zip_directory_and_file(directory, extra_file) ==
    LET zip_prefix == MINI_IMAGE_DIR
        fromDir == IF directory.kind = "dir"
                   THEN {<<zip_prefix>> \o relative_path : relative_path \in directory.files}
                   ELSE {}
        fromFile == IF extra_file.exists THEN {<<MINI_JSON_FILE>>} ELSE {}
    IN [exists |-> TRUE, names |-> fromDir \cup fromFile]

----------------------------------------------------------------------------
(* Initial states. *)

NoEarlierRun == [has |-> FALSE, rows |-> <<>>, other |-> FALSE]

\* what a run started with the flags newArgs remembers of the runs before it
EarlierRun(newArgs) ==
    [has |-> sampled \/ prev_df.has,
     rows |-> IF sampled THEN mini_df ELSE prev_df.rows,
     other |-> sampled /\ newArgs # args /\ Disk # disk0]

InitRun ==
    /\ args = [zip |-> TRUE, only |-> FALSE]
    /\ pc = "idle"
    /\ qi = 0
    /\ mini_df_list = <<>>
    /\ mini_df = <<>>
    /\ sampled = FALSE
    /\ ri = 0
    /\ copied_count = 0
    /\ missing_count = 0
    /\ srcRead = FALSE
    /\ df = NoFrame
    /\ prev_df = NoEarlierRun

Init ==
    /\ dataset \in Datasets(MaxRecords)
    /\ cat_num \in QuotaTables(DataCats, MaxQuota) \ {<<>>}
    /\ inputExists \in BOOLEAN
    /\ srcDir \in SourceDirs
    /\ \E d \in InitialDisks :
          /\ miniDir = d.dir
          /\ miniJson = d.json
          /\ zipFile = d.zip
          /\ disk0 = d
    /\ InitRun

----------------------------------------------------------------------------
(* main(). *)

\* (a variant with the negation lost)
ShouldCreateIfEither == args.zip \/ args.only

should_create_local_images == args.zip \/ ~args.only

\* argument parsing, and the input check failing: print the error and return
MainMissingInput(z, o) ==
    /\ pc \in {"idle", "done", "aborted", "crashed"}
    /\ ~inputExists
    /\ args' = [zip |-> z, only |-> o]
    /\ pc' = "aborted"
    /\ df' = NoFrame
    /\ disk0' = Disk
    /\ srcRead' = FALSE
    /\ sampled' = FALSE
    /\ prev_df' = EarlierRun([zip |-> z, only |-> o])
    /\ qi' = 0
    /\ mini_df_list' = <<>>
    /\ mini_df' = <<>>
    /\ ri' = 0
    /\ copied_count' = 0
    /\ missing_count' = 0
    /\ UNCHANGED <<inputVars, miniDir, miniJson, zipFile>>

\* argument parsing, the input check passing and the data loaded
MainLoad(z, o) ==
    /\ pc \in {"idle", "done", "aborted", "crashed"}
    /\ inputExists
    /\ args' = [zip |-> z, only |-> o]
    /\ pc' = "create"
    /\ df' = JsonNormalize(dataset)
    /\ disk0' = Disk
    /\ srcRead' = FALSE
    /\ sampled' = FALSE
    /\ prev_df' = EarlierRun([zip |-> z, only |-> o])
    /\ qi' = 0
    /\ mini_df_list' = <<>>
    /\ mini_df' = <<>>
    /\ ri' = 0
    /\ copied_count' = 0
    /\ missing_count' = 0
    /\ UNCHANGED <<inputVars, miniDir, miniJson, zipFile>>

----------------------------------------------------------------------------
(* create_mini_dataset. *)

\* (a variant that makes the source directory check after the JSON is saved)
RaiseNoSourceAfterSave ==
    /\ pc = "create"
    /\ should_create_local_images
    /\ ~srcDir.exists
    /\ srcRead' = TRUE
    /\ miniJson' = [exists |-> TRUE, rows |-> <<>>]
    /\ pc' = "aborted"
    /\ UNCHANGED <<inputVars, df, miniDir, zipFile, args, runVars, disk0, prev_df>>

\* the source directory check raising FileNotFoundError, caught by main
RaiseNoSource ==
    /\ pc = "create"
    /\ should_create_local_images
    /\ ~srcDir.exists
    /\ srcRead' = TRUE
    /\ pc' = "aborted"
    /\ UNCHANGED <<inputVars, df, miniDir, miniJson, zipFile, args, runVars, disk0, prev_df>>

\* the source directory check passing, or not made
BeginSampling ==
    /\ pc = "create"
    /\ should_create_local_images => srcDir.exists
    /\ srcRead' = should_create_local_images
    /\ pc' = "sampling"
    /\ qi' = 1
    /\ mini_df_list' = <<>>
    /\ UNCHANGED <<inputVars, df, miniDir, miniJson, zipFile, args, mini_df, sampled, ri,
                   copied_count, missing_count, disk0, prev_df>>

\* (a variant that samples without a seed: any n_samples distinct rows, any order)
SampleCategoryUnseeded ==
    /\ pc = "sampling"
    /\ qi <= Len(cat_num)
    /\ df.columns
    /\ LET cat_df == CatDf(df.rows, cat_num[qi].cat)
           n_samples == NSamples(cat_num[qi].count, Len(cat_df))
       IN IF cat_df # <<>> /\ n_samples > 0
          THEN \E idx \in [1..n_samples -> 1..Len(cat_df)] :
                  /\ \A a, b \in 1..n_samples : idx[a] = idx[b] => a = b
                  /\ mini_df_list' =
                        Append(mini_df_list, [k \in 1..n_samples |-> cat_df[idx[k]]])
          ELSE mini_df_list' = mini_df_list
    /\ qi' = qi + 1
    /\ UNCHANGED <<inputVars, df, miniDir, miniJson, zipFile, args, pc, mini_df, sampled, ri,
                   copied_count, missing_count, srcRead, disk0, prev_df>>

\* one iteration of the loop over cat_counts.items()
\* (df["type"] raises KeyError on a frame without columns; sample raises
\* ValueError when asked for more rows than the frame has)
SampleCategory ==
    /\ pc = "sampling"
    /\ qi <= Len(cat_num)
    /\ IF ~df.columns \/ SampleRaises(df.rows, cat_num[qi])
       THEN /\ pc' = "crashed"
            /\ UNCHANGED <<mini_df_list, qi>>
       ELSE /\ mini_df_list' = SampleEntry(mini_df_list, df.rows, cat_num[qi])
            /\ qi' = qi + 1
            /\ pc' = pc
    /\ UNCHANGED <<inputVars, df, miniDir, miniJson, zipFile, args, mini_df, sampled, ri,
                   copied_count, missing_count, srcRead, disk0, prev_df>>

\* the concatenation and mini_df.to_json
SaveJson ==
    /\ pc = "sampling"
    /\ qi > Len(cat_num)
    /\ mini_df' = Concat(mini_df_list)
    /\ sampled' = TRUE
    /\ miniJson' = [exists |-> TRUE, rows |-> mini_df']
    /\ pc' = IF should_create_local_images THEN "images" ELSE "zip"
    /\ UNCHANGED <<inputVars, df, miniDir, zipFile, args, qi, mini_df_list, ri,
                   copied_count, missing_count, srcRead, disk0, prev_df>>

\* shutil.rmtree on a path that is a regular file: NotADirectoryError, not caught
ClearImageDirFails ==
    /\ pc = "images"
    /\ miniDir.kind = "file"
    /\ pc' = "crashed"
    /\ UNCHANGED <<inputVars, df, miniDir, miniJson, zipFile, args, runVars, srcRead,
                   disk0, prev_df>>

\* (a variant that makes the directory without clearing an existing one)
ClearImageDirKeepsOld ==
    /\ pc = "images"
    /\ miniDir.kind # "file"
    /\ miniDir' = [miniDir EXCEPT !.kind = "dir"]
    /\ copied_count' = 0
    /\ missing_count' = 0
    /\ ri' = 1
    /\ pc' = "copying"
    /\ UNCHANGED <<inputVars, df, miniJson, zipFile, args, qi, mini_df_list, mini_df, sampled,
                   srcRead, disk0, prev_df>>

\* the image directory cleared if it exists, and made
ClearImageDir ==
    /\ pc = "images"
    /\ miniDir.kind # "file"
    /\ miniDir' = EmptyDir
    /\ copied_count' = 0
    /\ missing_count' = 0
    /\ ri' = 1
    /\ pc' = "copying"
    /\ UNCHANGED <<inputVars, df, miniJson, zipFile, args, qi, mini_df_list, mini_df, sampled,
                   srcRead, disk0, prev_df>>

\* (a variant that copies without the existence test: a missing source raises
\* FileNotFoundError, which main catches)
CopyImageRaisesOnMissing ==
    /\ pc = "copying"
    /\ ri <= Len(mini_df)
    /\ LET image_path == mini_df[ri].image_path
           made == [miniDir EXCEPT !.dirs = @ \cup ParentDirs(image_path)]
       IN IF image_path \in srcDir.files
          THEN /\ miniDir' = [made EXCEPT !.files = @ \cup {image_path}]
               /\ copied_count' = copied_count + 1
               /\ ri' = ri + 1
               /\ pc' = pc
          ELSE /\ miniDir' = made
               /\ copied_count' = copied_count
               /\ ri' = ri
               /\ pc' = "aborted"
    /\ UNCHANGED <<inputVars, df, miniJson, zipFile, args, qi, mini_df_list, mini_df,
                   sampled, missing_count, srcRead, disk0, prev_df>>

\* one iteration of the copy loop
CopyImage ==
    /\ pc = "copying"
    /\ ri <= Len(mini_df)
    /\ LET image_path == mini_df[ri].image_path
           made == [miniDir EXCEPT !.dirs = @ \cup ParentDirs(image_path)]
       IN IF image_path \in srcDir.files
          THEN /\ miniDir' = [made EXCEPT !.files = @ \cup {image_path}]
               /\ copied_count' = copied_count + 1
               /\ missing_count' = missing_count
          ELSE /\ miniDir' = made
               /\ copied_count' = copied_count
               /\ missing_count' = missing_count + 1
    /\ ri' = ri + 1
    /\ UNCHANGED <<inputVars, df, miniJson, zipFile, args, pc, qi, mini_df_list, mini_df,
                   sampled, srcRead, disk0, prev_df>>

\* the copy loop ending: the counts are reported
EndCopy ==
    /\ pc = "copying"
    /\ ri > Len(mini_df)
    /\ pc' = "zip"
    /\ UNCHANGED <<inputVars, df, miniDir, miniJson, zipFile, args, runVars, srcRead,
                   disk0, prev_df>>

----------------------------------------------------------------------------
(* main(), after create_mini_dataset returned. *)

ZipFiles ==
    /\ pc = "zip"
    /\ args.zip
    /\ zipFile' = zip_directory_and_file(miniDir, miniJson)
    /\ pc' = IF args.only THEN "cleanup" ELSE "done"
    /\ UNCHANGED <<inputVars, df, miniDir, miniJson, args, runVars, srcRead, disk0, prev_df>>

\* (a variant with the cleanup outside the zip branch)
SkipZipThenCleanup ==
    /\ pc = "zip"
    /\ ~args.zip
    /\ pc' = IF args.only THEN "cleanup" ELSE "done"
    /\ UNCHANGED <<inputVars, df, miniDir, miniJson, zipFile, args, runVars, srcRead,
                   disk0, prev_df>>

SkipZip ==
    /\ pc = "zip"
    /\ ~args.zip
    /\ pc' = "done"
    /\ UNCHANGED <<inputVars, df, miniDir, miniJson, zipFile, args, runVars, srcRead,
                   disk0, prev_df>>

\* (a variant that removes the image directory and forgets the JSON file)
CleanupKeepsJson ==
    /\ pc = "cleanup"
    /\ miniDir' = IF miniDir.kind # "absent" THEN AbsentDir ELSE miniDir
    /\ pc' = "done"
    /\ UNCHANGED <<inputVars, df, miniJson, zipFile, args, runVars, srcRead, disk0, prev_df>>

\* --only: the image directory and the JSON file removed if they exist
Cleanup ==
    /\ pc = "cleanup"
    /\ miniDir' = IF miniDir.kind # "absent" THEN AbsentDir ELSE miniDir
    /\ miniJson' = IF miniJson.exists THEN AbsentJson ELSE miniJson
    /\ pc' = "done"
    /\ UNCHANGED <<inputVars, df, zipFile, args, runVars, srcRead, disk0, prev_df>>

Next ==
    \/ \E z, o \in BOOLEAN : MainMissingInput(z, o)
    \/ \E z, o \in BOOLEAN : MainLoad(z, o)
    \/ RaiseNoSource
    \/ BeginSampling
    \/ SampleCategory
    \/ SaveJson
    \/ ClearImageDirFails
    \/ ClearImageDir
    \/ CopyImage
    \/ EndCopy
    \/ ZipFiles
    \/ SkipZip
    \/ Cleanup

Spec == Init /\ [][Next]_vars

----------------------------------------------------------------------------
(* The sampler alone: create_mini_dataset called with every frame of        *)
(* records (the empty one too) and every quota table of the sampler bounds, *)
(* with either value of save_images, the source directory present and       *)
(* nothing at the output paths.                                             *)

InitSampler ==
    /\ dataset \in Datasets(SamplerMaxRecords)
    /\ cat_num \in QuotaTables(QuotaCats, SamplerMaxQuota)
    /\ inputExists = TRUE
    /\ srcDir = [exists |-> TRUE, files |-> ImagePaths]
    /\ miniDir = AbsentDir
    /\ miniJson = AbsentJson
    /\ zipFile = AbsentZip
    /\ disk0 = [dir |-> AbsentDir, json |-> AbsentJson, zip |-> AbsentZip]
    /\ df = [columns |-> TRUE, rows |-> dataset]
    /\ args \in [zip : BOOLEAN, only : BOOLEAN]
    /\ pc = "create"
    /\ qi = 0
    /\ mini_df_list = <<>>
    /\ mini_df = <<>>
    /\ sampled = FALSE
    /\ ri = 0
    /\ copied_count = 0
    /\ missing_count = 0
    /\ srcRead = FALSE
    /\ prev_df = NoEarlierRun

NextSampler ==
    \/ BeginSampling
    \/ SampleCategory
    \/ SaveJson

SpecSampler == InitSampler /\ [][NextSampler]_vars

----------------------------------------------------------------------------
(* Properties. *)

Count(rows, cat) == Cardinality({i \in DOMAIN rows : rows[i].type = cat})

\* the sum over the entries of the table of min(quota, rows of the category)
RECURSIVE ExpectedLength(_, _)
ExpectedLength(table, rows) ==
    IF table = <<>> THEN 0
    ELSE (IF table[1].count < Count(rows, table[1].cat)
          THEN table[1].count ELSE Count(rows, table[1].cat))
         + ExpectedLength(Tail(table), rows)

InTable(cat) == \E k \in DOMAIN cat_num : cat_num[k].cat = cat
QIndex(cat) == CHOOSE k \in DOMAIN cat_num : cat_num[k].cat = cat

\* the image paths of the sampled records that exist in the source directory
ExpectedImages == {mini_df[i].image_path : i \in DOMAIN mini_df} \cap srcDir.files

MissingAmong(rows) == {i \in rows : mini_df[i].image_path \notin srcDir.files}

TopLevel(archive) == {name[1] : name \in archive.names}

ArchiveOf(paths) == {<<MINI_IMAGE_DIR>> \o path : path \in paths} \cup {<<MINI_JSON_FILE>>}

C2_Order ==
    sampled =>
       /\ \A i \in DOMAIN mini_df : InTable(mini_df[i].type)
       /\ \A i, j \in DOMAIN mini_df :
             i < j => QIndex(mini_df[i].type) <= QIndex(mini_df[j].type)

\* every record of a three-record input sampled, two categories, and the input
\* starting with the category the table names last
C2_Witness ==
    /\ sampled
    /\ Len(mini_df) = 3
    /\ Len(df.rows) = 3
    /\ mini_df[1].type # mini_df[3].type
    /\ df.rows[1].type = mini_df[3].type

C4_AbortLeavesDisk == pc = "aborted" => Disk = disk0

\* aborted on the missing source directory, with all three outputs on disk
C4_Witness ==
    /\ pc = "aborted"
    /\ inputExists
    /\ ~srcDir.exists
    /\ should_create_local_images
    /\ disk0.dir = StaleDir
    /\ disk0.json.exists
    /\ disk0.zip.exists

C6_MissingNonFatal ==
    /\ pc \in {"aborted", "crashed"} => ri = 0
    /\ (pc \in {"copying", "zip", "cleanup", "done"} /\ should_create_local_images) =>
          /\ ri \in 1..(Len(mini_df) + 1)
          /\ missing_count = Cardinality(MissingAmong(1..(ri - 1)))
          /\ copied_count = (ri - 1) - missing_count
          /\ pc # "copying" => copied_count + missing_count = Len(mini_df)
          /\ pc \in {"copying", "zip"} => miniJson = [exists |-> TRUE, rows |-> mini_df]

\* the copy loop ended with a missing image and a copied image
C6_Witness ==
    /\ pc = "zip"
    /\ should_create_local_images
    /\ missing_count > 0
    /\ copied_count > 0
    /\ \E i \in DOMAIN miniJson.rows : miniJson.rows[i].image_path \notin srcDir.files

C8_OnlyNozip ==
    (pc # "idle" /\ args.only /\ ~args.zip) =>
       /\ miniDir = disk0.dir
       /\ zipFile = disk0.zip
       /\ ~srcRead
       /\ pc = "done" => miniJson = [exists |-> TRUE, rows |-> mini_df]

\* completed with --only --nozip beside an older directory and archive, with
\* no source directory
C8_Witness ==
    /\ pc = "done"
    /\ args.only
    /\ ~args.zip
    /\ disk0.dir = StaleDir
    /\ disk0.zip = StaleZip
    /\ ~srcDir.exists
    /\ mini_df # <<>>

\* C9: a completed run without --only ends with the JSON file and the image
\* directory on disk, and with the archive unless --nozip; and unless the run
\* both zips and has --only, a JSON file or image directory that was there or
\* has been written is never missing afterwards.
C9_KeepsIntermediates ==
    /\ (pc = "done" /\ ~args.only) =>
          /\ miniJson = [exists |-> TRUE, rows |-> mini_df]
          /\ miniDir.kind = "dir"
          /\ args.zip => zipFile.exists /\ <<MINI_JSON_FILE>> \in zipFile.names
    /\ (pc # "idle" /\ ~(args.zip /\ args.only)) =>
          /\ (disk0.json.exists \/ sampled) => miniJson.exists
          /\ disk0.dir.kind # "absent" => miniDir.kind # "absent"

\* completed with --nozip alone on an empty disk: JSON and directory, no archive
C9_Witness ==
    /\ pc = "done"
    /\ ~args.only
    /\ ~args.zip
    /\ disk0.json = AbsentJson
    /\ disk0.dir = AbsentDir
    /\ miniJson.exists
    /\ miniDir.kind = "dir"
    /\ ~zipFile.exists

\* C10: the archive a run has written has exactly two top-level elements, the
\* folder named after the image directory and the JSON file, and holds the
\* JSON file at the root and each file of the image directory under the folder.
C10_TwoTopLevel ==
    (args.zip /\ pc \in {"cleanup", "done"}) =>
       /\ TopLevel(zipFile) = {MINI_IMAGE_DIR, MINI_JSON_FILE}
       /\ pc = "cleanup" => zipFile.names = ArchiveOf(miniDir.files)

====
